---- MODULE Spec2Model ----
(***************************************************************************)
(* Link Manager (src/link_manager.py): a two-panel window that imports     *)
(* the URLs of the .url shortcut files of a folder, shows them in a list   *)
(* with a search bar, opens them in the browser and keeps its state in     *)
(* config.json.                                                            *)
(*                                                                         *)
(* A Python str is a sequence of one-character strings; Ord gives the      *)
(* code point of each character, which decides ordering and case.          *)
(***************************************************************************)
EXTENDS Integers, Sequences, FiniteSets, TLC

VARIABLES links, folder, listed, search, label, file, phase,
          opened, errors, op, shortcut, url

vars == <<links, folder, listed, search, label, file, phase,
          opened, errors, op, shortcut, url>>

appVars == <<links, folder, listed, search, label, file, phase,
             opened, errors, op>>

parseVars == <<shortcut, url>>

(***************************************************************************)
(* Bounds of the model.                                                    *)
(***************************************************************************)
\* longest links list of a configuration file that was not written by the program
MaxCfgLinks == 2
\* most lines of a shortcut file handed to the parser on its own
MaxLines == 2
\* most characters after the prefix of such a line
MaxBody == 2

(***************************************************************************)
(* Strings.                                                                *)
(***************************************************************************)
Ord == [c \in {"\n", " ", "\"", ".", "/", "=", "A", "B", "L", "R", "U", "\\",
               "a", "b", "c", "d", "e", "f", "g", "h", "i", "j", "l", "n",
               "q", "r", "t", "u", "x"} |->
          CASE c = "\n" -> 10  [] c = " " -> 32   [] c = "\"" -> 34
            [] c = "." -> 46   [] c = "/" -> 47   [] c = "=" -> 61
            [] c = "A" -> 65   [] c = "B" -> 66   [] c = "L" -> 76
            [] c = "R" -> 82   [] c = "U" -> 85   [] c = "\\" -> 92
            [] c = "a" -> 97   [] c = "b" -> 98   [] c = "c" -> 99
            [] c = "d" -> 100  [] c = "e" -> 101  [] c = "f" -> 102
            [] c = "g" -> 103  [] c = "h" -> 104  [] c = "i" -> 105
            [] c = "j" -> 106  [] c = "l" -> 108  [] c = "n" -> 110
            [] c = "q" -> 113  [] c = "r" -> 114  [] c = "t" -> 116
            [] c = "u" -> 117  [] c = "x" -> 120]

\* str.lower() on one character: A-Z move up by 32 code points
LowerChar(c) ==
    IF Ord[c] >= 65 /\ Ord[c] <= 90
    THEN CHOOSE d \in DOMAIN Ord : Ord[d] = Ord[c] + 32
    ELSE c

\* str.lower()
Lower(s) == [i \in 1..Len(s) |-> LowerChar(s[i])]

\* a < b on str: code-point lexicographic order
StrLess(a, b) ==
    \E i \in 1..(Len(b)) :
        /\ \A k \in 1..(i - 1) : k <= Len(a) /\ a[k] = b[k]
        /\ \/ i = Len(a) + 1
           \/ i <= Len(a) /\ Ord[a[i]] < Ord[b[i]]

\* str.startswith(prefix)
StartsWith(s, prefix) ==
    Len(s) >= Len(prefix) /\ SubSeq(s, 1, Len(prefix)) = prefix

\* str.endswith(suffix)
EndsWith(s, suffix) ==
    Len(s) >= Len(suffix) /\ SubSeq(s, Len(s) - Len(suffix) + 1, Len(s)) = suffix

\* `sub in s` on str
Contains(s, sub) ==
    \E i \in 0..(Len(s) - Len(sub)) : SubSeq(s, i + 1, i + Len(sub)) = sub

IsSpace(c) == c \in {" ", "\n"}

\* str.strip(): drop the leading and the trailing whitespace
Strip(s) ==
    LET keep == {i \in 1..Len(s) : ~IsSpace(s[i])}
    IN  IF keep = {} THEN <<>>
        ELSE LET lo == CHOOSE i \in keep : \A j \in keep : i <= j
                 hi == CHOOSE i \in keep : \A j \in keep : j <= i
             IN  SubSeq(s, lo, hi)

\* str.split('='): the pieces between the '=' characters, in order
RECURSIVE Split(_)
Split(s) ==
    LET eqs == {i \in 1..Len(s) : s[i] = "="}
    IN  IF eqs = {} THEN <<s>>
        ELSE LET p == CHOOSE i \in eqs : \A j \in eqs : i <= j
             IN  <<SubSeq(s, 1, p - 1)>> \o Split(SubSeq(s, p + 1, Len(s)))

\* os.path.basename on a POSIX path: what follows the last '/'
Basename(path) ==
    LET slashes == {i \in 1..Len(path) : path[i] = "/"}
    IN  IF slashes = {} THEN path
        ELSE LET p == CHOOSE i \in slashes : \A j \in slashes : j <= i
             IN  SubSeq(path, p + 1, Len(path))

\* sorted(set(xs)): the distinct values of xs in ascending order
RECURSIVE SortSet(_)
SortSet(S) ==
    IF S = {} THEN <<>>
    ELSE LET m == CHOOSE x \in S : \A y \in S \ {x} : StrLess(x, y)
         IN  <<m>> \o SortSet(S \ {m})

Range(xs) == {xs[i] : i \in DOMAIN xs}

sorted_set(xs) == SortSet(Range(xs))

(***************************************************************************)
(* Python values.                                                          *)
(***************************************************************************)
None == [some |-> FALSE]

Some(v) == [some |-> TRUE, val |-> v]

\* truth value of `link` in `if link:`: neither None nor ""
Truthy(r) == r.some /\ r.val # <<>>

(***************************************************************************)
(* extract_url_from_shortcut.  A shortcut file is [readable, lines]: open  *)
(* or the first read of a file that is not readable raises (shortcut files *)
(* are far shorter than one read buffer, so a decoding error shows before  *)
(* any line is seen); a readable file yields its lines, each with its      *)
(* line end.  The result is the returned value and whether the error       *)
(* dialog was shown.                                                       *)
(***************************************************************************)
URLPrefix == <<"U", "R", "L", "=">>

FirstUrlLine(lines) ==
    LET hits == {i \in 1..Len(lines) : StartsWith(lines[i], URLPrefix)}
    IN  IF hits = {} THEN 0 ELSE CHOOSE i \in hits : \A j \in hits : i <= j

\* mutant: a file without URL= line is reported like a file that cannot be read
extract_url_reporting_misses(f) ==
    IF ~f.readable
    THEN [ret |-> None, raised |-> TRUE]
    ELSE LET n == FirstUrlLine(f.lines)
         IN  IF n = 0
             THEN [ret |-> None, raised |-> TRUE]
             ELSE [ret |-> Some(Split(Strip(f.lines[n]))[2]), raised |-> FALSE]

extract_url_from_shortcut(f) ==
    IF ~f.readable
    THEN [ret |-> None, raised |-> TRUE]
    ELSE LET n == FirstUrlLine(f.lines)
         IN  IF n = 0
             THEN [ret |-> None, raised |-> FALSE]
             ELSE [ret |-> Some(Split(Strip(f.lines[n]))[2]), raised |-> FALSE]

(***************************************************************************)
(* The folders the directory dialog can return, with what os.listdir,      *)
(* os.path.isfile and open find in them.                                   *)
(***************************************************************************)
FolderA == <<"/", "a">>

FolderB == <<"/", "c", "/", "b", "\\">>

Entry(name, isfile, readable, lines) ==
    [name |-> name, isfile |-> isfile, readable |-> readable, lines |-> lines]

ListingA ==
    << Entry(<<"a", ".", "u", "r", "l">>, TRUE, TRUE,
             << <<"x", "\n">>, <<"U", "R", "L", "=", "b", "\n">> >>),
       Entry(<<"b", ".", "u", "r", "l">>, TRUE, TRUE,
             << <<"U", "R", "L", "=", "a", "\n">> >>),
       Entry(<<"c", ".", "u", "r", "l">>, TRUE, TRUE,
             << <<"U", "R", "L", "=", "a", "\n">> >>),
       Entry(<<"d", ".", "t", "x", "t">>, TRUE, TRUE,
             << <<"U", "R", "L", "=", "c", "\n">> >>) >>

ListingB ==
    << Entry(<<"e", ".", "U", "R", "L">>, TRUE, TRUE,
             << <<"U", "R", "L", "=", "B", " ", "\n">> >>),
       Entry(<<"f", ".", "u", "r", "l">>, TRUE, FALSE,
             << <<"U", "R", "L", "=", "c", "\n">> >>),
       Entry(<<"g", ".", "u", "r", "l">>, TRUE, TRUE,
             << <<"u", "r", "l", "=", "c", "\n">>, <<" ", "U", "R", "L", "=", "c">> >>),
       Entry(<<"h", ".", "u", "r", "l">>, FALSE, TRUE, <<>>),
       Entry(<<"i", ".", "u", "r", "l">>, TRUE, TRUE,
             << <<"U", "R", "L", "=", "a", "=", "b", "\n">>,
                <<"U", "R", "L", "=", "c", "\n">> >>),
       Entry(<<"j", ".", "u", "r", "l">>, TRUE, TRUE,
             << <<"U", "R", "L", "=", "\n">> >>),
       Entry(<<"x", ".", "t", "x", "t">>, TRUE, FALSE, <<>>) >>

FolderPaths == {FolderA, FolderB}

\* os.listdir(folder), in the order the operating system gives
listdir(path) == IF path = FolderA THEN ListingA ELSE ListingB

\* os.path.join(folder, file)
PathJoin(path, name) == path \o <<"/">> \o name

(***************************************************************************)
(* config.json.  The document is kept as its members: each key with the    *)
(* JSON text of its value, a string literal or a list of string literals.  *)
(***************************************************************************)
Keys == {"links1", "links2", "folder1", "folder2"}

\* the JSON escape of one character (json.dump, ensure_ascii)
EscapeChar(c) ==
    CASE c = "\"" -> <<"\\", "\"">>
      [] c = "\\" -> <<"\\", "\\">>
      [] c = "\n" -> <<"\\", "n">>
      [] OTHER    -> <<c>>

RECURSIVE Escape(_)
Escape(s) == IF s = <<>> THEN <<>> ELSE EscapeChar(Head(s)) \o Escape(Tail(s))

\* json.dump of a str: the escaped text between double quotes
JsonString(s) == <<"\"">> \o Escape(s) \o <<"\"">>

\* json.load inside a string literal: a backslash joins the character after it
RECURSIVE Unescape(_)
Unescape(t) ==
    IF t = <<>> THEN <<>>
    ELSE IF Head(t) = "\\"
         THEN <<IF t[2] = "n" THEN "\n" ELSE t[2]>> \o Unescape(Tail(Tail(t)))
         ELSE <<Head(t)>> \o Unescape(Tail(t))

\* json.load of a string literal
ParseString(t) == Unescape(SubSeq(t, 2, Len(t) - 1))

NoFile == [exists |-> FALSE]

\* the state of one instance: self.links1/2, self.folder1/2
Defaults == [links |-> [s \in 1..2 |-> <<>>], folder |-> [s \in 1..2 |-> <<>>]]

\* load_config: the instance state after reading `f` into a fresh instance
load_config(f) ==
    IF ~f.exists THEN Defaults
    ELSE LET list(k)  == IF k \in DOMAIN f.doc
                         THEN [i \in 1..Len(f.doc[k]) |-> ParseString(f.doc[k][i])]
                         ELSE <<>>
             text(k)  == IF k \in DOMAIN f.doc THEN ParseString(f.doc[k]) ELSE <<>>
         IN  [links  |-> <<list("links1"), list("links2")>>,
              folder |-> <<text("folder1"), text("folder2")>>]

\* mutant: links2 is written from links1
save_config_links1_twice(ls, fs) ==
    [exists |-> TRUE,
     doc |-> [links1  |-> [i \in 1..Len(ls[1]) |-> JsonString(ls[1][i])],
              links2  |-> [i \in 1..Len(ls[1]) |-> JsonString(ls[1][i])],
              folder1 |-> JsonString(fs[1]),
              folder2 |-> JsonString(fs[2])]]

\* save_config: the file written from the instance state
save_config(ls, fs) ==
    [exists |-> TRUE,
     doc |-> [links1  |-> [i \in 1..Len(ls[1]) |-> JsonString(ls[1][i])],
              links2  |-> [i \in 1..Len(ls[2]) |-> JsonString(ls[2][i])],
              folder1 |-> JsonString(fs[1]),
              folder2 |-> JsonString(fs[2])]]

(***************************************************************************)
(* The window.  A panel (layout, label, search bar, list, buttons) is      *)
(* named by its slot, 1 or 2: the handlers tell the panels apart by        *)
(* comparing the widget they are given with self.layout1 and its list.     *)
(***************************************************************************)
Slots == {1, 2}

Other(slot) == 3 - slot

\* the texts typed into a search bar
SearchTexts == {<<>>, <<"A">>}

\* the label of a panel as create_link_panel leaves it
Title(slot) == [text |-> IF slot = 1 THEN "Linklist 1" ELSE "Linklist 2", arg |-> <<>>]

\* f"Folder: {os.path.basename(folder)}"
FolderLabel(path) == [text |-> "Folder: ", arg |-> Basename(path)]

Op(name, slot, arg) == [name |-> name, slot |-> slot, arg |-> arg]

\* the URLs import_links collects from a folder, in listing order, before set()
collected(path) ==
    LET es   == listdir(path)
        ret(i) == extract_url_from_shortcut(es[i]).ret
        take == {i \in 1..Len(es) :
                    /\ es[i].isfile
                    /\ EndsWith(Lower(es[i].name), <<".", "u", "r", "l">>)
                    /\ Truthy(ret(i))}
        F[i \in 0..Len(es)] ==
            IF i = 0 THEN <<>>
            ELSE IF i \in take THEN Append(F[i - 1], ret(i).val) ELSE F[i - 1]
    IN  F[Len(es)]

\* the paths QMessageBox.critical names while import_links runs, in order
reported(path) ==
    LET es == listdir(path)
        bad == {i \in 1..Len(es) :
                   /\ es[i].isfile
                   /\ EndsWith(Lower(es[i].name), <<".", "u", "r", "l">>)
                   /\ extract_url_from_shortcut(es[i]).raised}
        F[i \in 0..Len(es)] ==
            IF i = 0 THEN <<>>
            ELSE IF i \in bad THEN Append(F[i - 1], PathJoin(path, es[i].name))
                 ELSE F[i - 1]
    IN  F[Len(es)]

\* update_link_list: the list shows every link of the panel's slot
update_link_list(slot, ls) == ls[slot]

\* the list comprehension of filter_links
filtered_links(ls, search_text) ==
    SelectSeq(ls, LAMBDA link : Contains(Lower(link), search_text))

\* what one run of import_links finds in each folder: the new links and the
\* error dialogs (the folders do not change while the program runs)
scan == [path \in FolderPaths |->
           [links |-> sorted_set(collected(path)), errors |-> reported(path)]]

\* mutant: the new links are merged into the links the slot holds
import_links_merging(slot, path) ==
    /\ phase = "running"
    /\ path # <<>>
    /\ LET new == sorted_set(links[slot] \o collected(path))
           ls  == [links EXCEPT ![slot] = new]
       IN  /\ links' = ls
           /\ folder' = [folder EXCEPT ![slot] = path]
           /\ listed' = [listed EXCEPT ![slot] = update_link_list(slot, ls)]
    /\ label' = [label EXCEPT ![slot] = FolderLabel(path)]
    /\ errors' = scan[path].errors
    /\ opened' = <<>>
    /\ op' = Op("import_links", slot, path)
    /\ UNCHANGED <<search, file, phase, shortcut, url>>

\* mutant: the new links are stored in links2 whichever panel was used
import_links_into_links2(slot, path) ==
    /\ phase = "running"
    /\ path # <<>>
    /\ LET new == scan[path].links
           ls  == [links EXCEPT ![slot] = new, ![2] = new]
       IN  /\ links' = ls
           /\ folder' = [folder EXCEPT ![slot] = path]
           /\ listed' = [listed EXCEPT ![slot] = update_link_list(slot, ls)]
    /\ label' = [label EXCEPT ![slot] = FolderLabel(path)]
    /\ errors' = scan[path].errors
    /\ opened' = <<>>
    /\ op' = Op("import_links", slot, path)
    /\ UNCHANGED <<search, file, phase, shortcut, url>>

\* import_links with the folder the dialog returned
import_links(slot, path) ==
    /\ phase = "running"
    /\ path # <<>>
    /\ LET new == scan[path].links
           ls  == [links EXCEPT ![slot] = new]
       IN  /\ links' = ls
           /\ folder' = [folder EXCEPT ![slot] = path]
           /\ listed' = [listed EXCEPT ![slot] = update_link_list(slot, ls)]
    /\ label' = [label EXCEPT ![slot] = FolderLabel(path)]
    /\ errors' = scan[path].errors
    /\ opened' = <<>>
    /\ op' = Op("import_links", slot, path)
    /\ UNCHANGED <<search, file, phase, shortcut, url>>

\* import_links when the dialog was cancelled (it returns "")
import_cancelled(slot) ==
    /\ phase = "running"
    /\ errors' = <<>>
    /\ opened' = <<>>
    /\ op' = Op("import_cancelled", slot, <<>>)
    /\ UNCHANGED <<links, folder, listed, search, label, file, phase, shortcut, url>>

\* mutant: the search text is not lower-cased
filter_links_as_typed(slot, text) ==
    /\ phase = "running"
    /\ text # search[slot]
    /\ search' = [search EXCEPT ![slot] = text]
    /\ listed' = [listed EXCEPT ![slot] = filtered_links(links[slot], text)]
    /\ errors' = <<>>
    /\ opened' = <<>>
    /\ op' = Op("filter_links", slot, text)
    /\ UNCHANGED <<links, folder, label, file, phase, shortcut, url>>

\* filter_links, run by textChanged when the text of a search bar changes
filter_links(slot, text) ==
    /\ phase = "running"
    /\ text # search[slot]
    /\ search' = [search EXCEPT ![slot] = text]
    /\ listed' = [listed EXCEPT ![slot] = filtered_links(links[slot], Lower(text))]
    /\ errors' = <<>>
    /\ opened' = <<>>
    /\ op' = Op("filter_links", slot, text)
    /\ UNCHANGED <<links, folder, label, file, phase, shortcut, url>>

\* open_link, run by a double click on the i-th item of a list
open_link(slot, i) ==
    /\ phase = "running"
    /\ i \in 1..Len(listed[slot])
    /\ opened' = <<listed[slot][i]>>
    /\ errors' = <<>>
    /\ op' = Op("open_link", slot, listed[slot][i])
    /\ UNCHANGED <<links, folder, listed, search, label, file, phase, shortcut, url>>

\* open_all_links
open_all_links(slot) ==
    /\ phase = "running"
    /\ opened' = links[slot]
    /\ errors' = <<>>
    /\ op' = Op("open_all_links", slot, <<>>)
    /\ UNCHANGED <<links, folder, listed, search, label, file, phase, shortcut, url>>

\* closeEvent: save_config, then the window closes and the process ends.
\* The widgets are gone; links and folder stay as what the ended instance held.
closeEvent ==
    /\ phase = "running"
    /\ file' = save_config(links, folder)
    /\ phase' = "closed"
    /\ listed' = [s \in Slots |-> <<>>]
    /\ search' = [s \in Slots |-> <<>>]
    /\ label' = [s \in Slots |-> Title(s)]
    /\ errors' = <<>>
    /\ opened' = <<>>
    /\ op' = Op("closeEvent", 1, <<>>)
    /\ UNCHANGED <<links, folder, shortcut, url>>

\* __init__ of the next run: initUI, the empty slots, load_config
Startup ==
    /\ phase = "closed"
    /\ phase' = "running"
    /\ links' = load_config(file).links
    /\ folder' = load_config(file).folder
    /\ listed' = [s \in Slots |-> <<>>]
    /\ search' = [s \in Slots |-> <<>>]
    /\ label' = [s \in Slots |-> Title(s)]
    /\ errors' = <<>>
    /\ opened' = <<>>
    /\ op' = Op("Startup", 1, <<>>)
    /\ UNCHANGED <<file, shortcut, url>>

(***************************************************************************)
(* The configuration files the first run can find: none, or a document of  *)
(* section 6's shape holding at most MaxCfgLinks links in any order, or    *)
(* such a document with some of its keys missing.                          *)
(***************************************************************************)
CfgB == <<"b">>

CfgA == <<"a", "\"">>

CfgUrls == {CfgA, CfgB}

CfgLists == UNION {[1..n -> CfgUrls] : n \in 0..MaxCfgLinks}

CfgFolders == {<<>>, FolderB}

FullConfigs ==
    { save_config(<<l1, l2>>, <<f1, f2>>) :
        l1 \in CfgLists, l2 \in CfgLists,
        f1 \in CfgFolders, f2 \in CfgFolders }

PartialConfigs ==
    { [exists |-> TRUE,
       doc |-> [k \in K |->
                  save_config(<< <<CfgB, CfgA>>, <<CfgB>> >>, <<FolderB, FolderA>>).doc[k]]] :
        K \in SUBSET Keys }

ConfigFiles ==
    {NoFile} \cup PartialConfigs
             \cup {f \in FullConfigs : Len(f.doc.links1) + Len(f.doc.links2) <= MaxCfgLinks}

\* no shortcut file is being parsed on its own
NoShortcut == [readable |-> FALSE, lines |-> <<>>]

NotCalled == [called |-> FALSE]

Init ==
    /\ file \in ConfigFiles
    /\ phase = "running"
    /\ links = load_config(file).links
    /\ folder = load_config(file).folder
    /\ listed = [s \in Slots |-> <<>>]
    /\ search = [s \in Slots |-> <<>>]
    /\ label = [s \in Slots |-> Title(s)]
    /\ errors = <<>>
    /\ opened = <<>>
    /\ op = Op("Startup", 1, <<>>)
    /\ shortcut = NoShortcut
    /\ url = NotCalled

Next ==
    \/ \E slot \in Slots, path \in FolderPaths : import_links(slot, path)
    \/ \E slot \in Slots : import_cancelled(slot)
    \/ \E slot \in Slots, text \in SearchTexts : filter_links(slot, text)
    \/ \E slot \in Slots : \E i \in 1..Len(listed[slot]) : open_link(slot, i)
    \/ \E slot \in Slots : open_all_links(slot)
    \/ closeEvent
    \/ Startup

Spec == Init /\ [][Next]_vars

(***************************************************************************)
(* extract_url_from_shortcut on its own: one call on any short file.       *)
(***************************************************************************)
LinePrefixes == {URLPrefix, <<"u", "r", "l", "=">>, <<" ">> \o URLPrefix, <<>>}

BodyChars == {"a", "=", " "}

LineBodies == UNION {[1..n -> BodyChars] : n \in 0..MaxBody}

LineTexts == {p \o b : p \in LinePrefixes, b \in LineBodies}

\* the lines iterating a text file yields: each ends with its line end, but
\* for a last line the file does not terminate
LinesOf(n, ended) ==
    { [i \in 1..n |-> IF i < n \/ ended THEN t[i] \o <<"\n">> ELSE t[i]] :
        t \in {x \in [1..n -> LineTexts] : ended \/ n = 0 \/ x[n] # <<>>} }

FileLines == UNION {LinesOf(n, ended) : n \in 0..MaxLines, ended \in BOOLEAN}

ShortcutFiles == {[readable |-> r, lines |-> ls] : r \in BOOLEAN, ls \in FileLines}

ParseInit ==
    /\ shortcut \in ShortcutFiles
    /\ url = NotCalled
    /\ file = NoFile
    /\ phase = "closed"
    /\ links = Defaults.links
    /\ folder = Defaults.folder
    /\ listed = [s \in Slots |-> <<>>]
    /\ search = [s \in Slots |-> <<>>]
    /\ label = [s \in Slots |-> Title(s)]
    /\ errors = <<>>
    /\ opened = <<>>
    /\ op = Op("none", 1, <<>>)

\* one call of extract_url_from_shortcut on the file
ExtractUrl ==
    /\ ~url.called
    /\ LET r == extract_url_from_shortcut(shortcut)
       IN  url' = [called |-> TRUE, ret |-> r.ret, raised |-> r.raised]
    /\ UNCHANGED <<shortcut, links, folder, listed, search, label, file, phase,
                   opened, errors, op>>

ParseNext == ExtractUrl

ParseSpec == ParseInit /\ [][ParseNext]_vars

(***************************************************************************)
(* What the claims speak of, stated without the operators of the model.    *)
(***************************************************************************)
\* xs is in strictly ascending order (so it holds no value twice)
IsAscending(xs) == \A i, j \in 1..Len(xs) : i < j => StrLess(xs[i], xs[j])

\* the name ends in .url, in any mix of upper and lower case
HasUrlExtension(name) ==
    /\ Len(name) >= 4
    /\ name[Len(name) - 3] = "."
    /\ name[Len(name) - 2] \in {"u", "U"}
    /\ name[Len(name) - 1] \in {"r", "R"}
    /\ name[Len(name)] \in {"l", "L"}

\* the regular files of a folder that are named as shortcuts
ShortcutEntries(path) ==
    {e \in Range(listdir(path)) : e.isfile /\ HasUrlExtension(e.name)}

\* the non-empty URLs extracted from the readable shortcut files of a folder
UrlsOf(path) ==
    {r.val : r \in {x \in {extract_url_from_shortcut(e).ret :
                              e \in {y \in ShortcutEntries(path) : y.readable}} :
                      x.some /\ x.val # <<>>}}

\* c and d are the same character up to the case of a letter
SameLetter(c, d) ==
    \/ c = d
    \/ Ord[c] >= 65 /\ Ord[c] <= 90 /\ Ord[d] = Ord[c] + 32
    \/ Ord[d] >= 65 /\ Ord[d] <= 90 /\ Ord[c] = Ord[d] + 32

\* the text occurs in the link, case-insensitively
Matches(link, text) ==
    \E i \in 0..(Len(link) - Len(text)) :
        \A k \in 1..Len(text) : SameLetter(link[i + k], text[k])

\* ys is the subsequence of the entries of xs that match the text
IsMatchingSubsequence(ys, xs, text) ==
    LET hit == {i \in 1..Len(xs) : Matches(xs[i], text)}
    IN  /\ Len(ys) = Cardinality(hit)
        /\ \A i \in hit : ys[Cardinality({j \in hit : j <= i})] = xs[i]

NoRepeat(xs) == \A i, j \in 1..Len(xs) : i # j => xs[i] # xs[j]

\* the text after the first '=' of a line, the line stripped of surrounding space
AfterFirstEq(line) ==
    LET t == Strip(line)
        p == CHOOSE i \in 1..Len(t) : t[i] = "=" /\ \A j \in 1..(i - 1) : t[j] # "="
    IN  SubSeq(t, p + 1, Len(t))

(***************************************************************************)
(* Claims.                                                                 *)
(***************************************************************************)
\* C1: after Import the slot's links are exactly the ascending sequence of the
\* distinct non-empty URLs extracted from the regular files of the folder whose
\* name ends in .url (any case), whatever the slot held before, and the slot's
\* source folder is the given path.
C1_ImportReplaces ==
    op.name = "import_links" =>
        /\ folder[op.slot] = op.arg
        /\ IsAscending(links[op.slot])
        /\ Range(links[op.slot]) = UrlsOf(op.arg)

\* C1 witness: folder A (a duplicate URL, a .txt file) imported into slot 1
\* while slot 2 holds the links of folder B.
C1_Witness ==
    /\ op = Op("import_links", 1, FolderA)
    /\ links[1] = << <<"a">>, <<"b">> >>
    /\ links[2] = << <<"B">>, <<"a">> >>

\* C2: in every reachable state each slot's links are sorted ascending and
\* hold no duplicate.
C2_LinksSortedDistinct == \A s \in Slots : IsAscending(links[s])

\* C3: ShortcutParse returns the whole text after the first '=' of the first
\* line beginning with URL=, further '=' included, and none when no line
\* begins with URL=.
C3_WholeTextAfterFirstEq ==
    (url.called /\ shortcut.readable) =>
        LET n == FirstUrlLine(shortcut.lines)
        IN  IF n = 0 THEN url.ret = None
            ELSE url.ret = Some(AfterFirstEq(shortcut.lines[n]))

\* C4: Filter(slot, s) shows exactly the links of the slot that contain s
\* case-insensitively, in links order; Filter(slot, "") shows all links; the
\* links and source folders of both slots stay as they were.
C4_FilterIsPureSubsequence ==
    [][op'.name = "filter_links" =>
         /\ IsMatchingSubsequence(listed'[op'.slot], links[op'.slot], op'.arg)
         /\ (op'.arg = <<>> => listed'[op'.slot] = links[op'.slot])
         /\ links' = links
         /\ folder' = folder]_vars

\* C4 witness: a search text in upper case that narrows a list to some links.
C4_Witness ==
    /\ op.name = "filter_links"
    /\ op.arg = <<"A">>
    /\ listed[op.slot] = << <<"a">> >>
    /\ Len(links[op.slot]) = 2

\* C5: the file SaveConfig writes holds exactly the four keys with the current
\* state, and LoadConfig in a fresh instance gives back links1, links2,
\* folder1 and folder2 exactly.
C5_SaveLoadRoundTrip ==
    [][/\ op'.name = "closeEvent" =>
            /\ file'.exists
            /\ DOMAIN file'.doc = Keys
            /\ load_config(file') = [links |-> links, folder |-> folder]
       /\ op'.name = "Startup" =>
            /\ links' = links
            /\ folder' = folder]_vars

\* C5 witness: a run that started from the file the run before it wrote, with
\* imported links and a folder path that JSON has to escape.
C5_Witness ==
    /\ op.name = "Startup"
    /\ phase = "running"
    /\ folder = <<FolderB, FolderA>>
    /\ links = << << <<"B">>, <<"a">> >>, << <<"a">>, <<"b">> >> >>

\* C6: an Import, Filter or OpenAll of one slot leaves the other slot's links,
\* source folder and displayed list as they were.
C6_SlotsIndependent ==
    [][op'.name \in {"import_links", "import_cancelled", "filter_links",
                     "open_all_links", "open_link"} =>
         LET o == Other(op'.slot)
         IN  /\ links'[o] = links[o]
             /\ folder'[o] = folder[o]
             /\ listed'[o] = listed[o]
             /\ search'[o] = search[o]
             /\ label'[o] = label[o]]_vars

\* C6 witness: an import into slot 1 while slot 2 shows a narrowed list of
\* other links.
C6_Witness ==
    /\ op.name = "import_links"
    /\ op.slot = 1
    /\ links[2] # <<>>
    /\ links[2] # links[1]
    /\ listed[2] # <<>>
    /\ listed[2] # links[2]

\* C7: an import reports exactly one error for each shortcut file that cannot
\* be read and none for any other file, and still collects the sorted distinct
\* URLs of all the readable shortcut files.
C7_UnreadableFilesSkipped ==
    op.name = "import_links" =>
        /\ NoRepeat(errors)
        /\ Range(errors) = {PathJoin(op.arg, e.name) :
                              e \in {x \in ShortcutEntries(op.arg) : ~x.readable}}
        /\ Range(links[op.slot]) = UrlsOf(op.arg)
        /\ IsAscending(links[op.slot])

\* C7 witness: the import of folder B, which holds an unreadable shortcut, a
\* shortcut without URL= line and readable ones.
C7_Witness ==
    /\ op.name = "import_links"
    /\ op.arg = FolderB
    /\ Len(errors) = 1
    /\ Len(links[op.slot]) = 2

\* C8: after startup every slot whose source folder is configured holds the
\* sorted distinct URLs of that folder's shortcut files.
C8_StartupReimports ==
    (op.name = "Startup" /\ phase = "running") =>
        \A s \in Slots :
            folder[s] \in FolderPaths =>
                IsAscending(links[s]) /\ Range(links[s]) = UrlsOf(folder[s])

\* C9: Open All Links hands to the browser exactly the entries displayed in the
\* slot's list, in displayed order; stated for the lists that are in step with
\* their search text, the case the claim singles out.
C9_OpenAllOpensDisplayed ==
    (/\ op.name = "open_all_links"
     /\ IsMatchingSubsequence(listed[op.slot], links[op.slot], search[op.slot])) =>
        opened = listed[op.slot]

\* C10: the entries displayed in a slot's list are exactly the slot's links
\* that contain the search-bar text case-insensitively, in links order.
C10_ListFollowsSearch ==
    phase = "running" =>
        \A s \in Slots : IsMatchingSubsequence(listed[s], links[s], search[s])

====
